---- MODULE Spec2Model ----
(***************************************************************************)
(* Model of src/main.rs: the search for subsets of an integer grid that    *)
(* contain no four concyclic points.                                       *)
(*                                                                         *)
(* Four specifications share the variables below.                          *)
(*   SpecGeom  the geometric predicates applied to one quadruple           *)
(*   SpecSeq   has_any_4_concyclic applied to one sequence of points       *)
(*   SpecEnum  the combination iterator pulled until it is exhausted       *)
(*   Spec      main: the loop over n, the scan, the output lines           *)
(*                                                                         *)
(* Arithmetic.  area2 is i32 and the determinant is f64.  With coordinates *)
(* in 0..6 no i32 product exceeds 72 and no partial sum of the determinant *)
(* exceeds 2^31, so i32 never wraps and every f64 value is an integer far  *)
(* below 2^53: both are exact, and |det| < 1e-12 is det = 0.               *)
(***************************************************************************)
EXTENDS Integers, Sequences, FiniteSets

VARIABLES
    quad,               \* SpecGeom: the four points p1..p4
    verdict,            \* SpecGeom: results of the predicates on quad
    points,             \* SpecSeq: the slice given to has_any_4_concyclic
    hres,               \* SpecSeq: its result and the combinations it tested
    yielded,            \* SpecEnum: the items the iterator returned so far
    hen,                \* main: grid side
    n_max,              \* main: last n of the range
    n,                  \* main: loop variable
    pc,                 \* main / SpecEnum / SpecGeom / SpecSeq: position
    found_good_subset,  \* main
    t,                  \* main: combinations examined in the scan for n
    it,                 \* main / SpecEnum: state of the Combinations iterator
    out                 \* main: lines printed so far

vars == << quad, verdict, points, hres, yielded, hen, n_max, n, pc,
           found_good_subset, t, it, out >>

(***************************************************************************)
(* Bounds                                                                  *)
(***************************************************************************)
\* SpecGeom: the points of the quadruple range over (0..GeomW) x (0..2)
GeomW == 3
\* SpecSeq: sequences of at most SeqLen points drawn from SeqGrid
SeqLen == 5
\* SpecEnum: universe sizes 0..EnumN
EnumN == 6
\* Spec: hen ranges over 1..MaxHen, n over N_MIN..n_max with n_max <= MaxN,
\* a progress line every INTERVAL combinations
MaxHen == 2
N_MIN == 3
MaxN == 6
INTERVAL == 2

(***************************************************************************)
(* Small helpers                                                           *)
(***************************************************************************)
Abs(v) == IF v < 0 THEN -v ELSE v

Last(s) == s[Len(s)]

Range(s) == { s[i] : i \in DOMAIN s }

\* the number of k-element subsets of an m-element set
RECURSIVE Binom(_, _)
Binom(m, k) ==
    IF k = 0 THEN 1
    ELSE IF m = 0 THEN 0
    ELSE Binom(m - 1, k - 1) + Binom(m - 1, k)

\* (0..=h).flat_map(|x| (0..=h).map(move |y| (x, y))) : x-major, y-minor
GridPoints(h) == [ i \in 1..((h + 1) * (h + 1)) |->
                     << (i - 1) \div (h + 1), (i - 1) % (h + 1) >> ]

(***************************************************************************)
(* Geometric predicates                                                    *)
(***************************************************************************)
\* a plausible slip: the last factor measured from p2 instead of p1
area2_slip(p1, p2, p3) ==
    (p2[1] - p1[1]) * (p3[2] - p1[2]) - (p2[2] - p1[2]) * (p3[1] - p2[1])

area2(p1, p2, p3) ==
    (p2[1] - p1[1]) * (p3[2] - p1[2]) - (p2[2] - p1[2]) * (p3[1] - p1[1])

\* a plausible slip: the second test repeats p3
four_points_are_collinear_slip(p1, p2, p3, p4) ==
    area2(p1, p2, p3) = 0 /\ area2(p1, p2, p3) = 0

four_points_are_collinear(p1, p2, p3, p4) ==
    area2(p1, p2, p3) = 0 /\ area2(p1, p2, p4) = 0

det3(m) ==
      m[1][1] * (m[2][2] * m[3][3] - m[2][3] * m[3][2])
    - m[1][2] * (m[2][1] * m[3][3] - m[2][3] * m[3][1])
    + m[1][3] * (m[2][1] * m[3][2] - m[2][2] * m[3][1])

\* rows 1..3 of m (0-based) without column i (0-based)
SubMatrix(m, i) ==
    [ r \in 1..3 |-> [ c \in 1..3 |-> m[r + 1][IF c - 1 < i THEN c ELSE c + 1] ] ]

\* a plausible slip: the alternating sign forgotten
det4_slip(m) ==
    LET term(i) == m[1][i + 1] * det3(SubMatrix(m, i))
    IN  term(0) + term(1) + term(2) + term(3)

det4(m) ==
    LET sign(i) == IF (i + 0) % 2 = 0 THEN 1 ELSE -1
        term(i) == sign(i) * m[1][i + 1] * det3(SubMatrix(m, i))
    IN  term(0) + term(1) + term(2) + term(3)

\* the matrix `mat` built from the four points
LiftedMatrix(p1, p2, p3, p4) ==
    LET row(p) == << p[1] * p[1] + p[2] * p[2], p[1], p[2], 1 >>
    IN  << row(p1), row(p2), row(p3), row(p4) >>

\* a plausible slip: the branch does what its comment says
four_points_are_concyclic_slip(p1, p2, p3, p4) ==
    IF four_points_are_collinear(p1, p2, p3, p4)
    THEN FALSE
    ELSE Abs(det4(LiftedMatrix(p1, p2, p3, p4))) = 0

four_points_are_concyclic(p1, p2, p3, p4) ==
    IF four_points_are_collinear(p1, p2, p3, p4)
    THEN TRUE
    ELSE LET det_value == det4(LiftedMatrix(p1, p2, p3, p4))
         IN  Abs(det_value) = 0      \* det_value.abs() < EPS, det_value an integer

(***************************************************************************)
(* itertools::Combinations: indices into a pool of pool_len items          *)
(***************************************************************************)
\* combinations(k) over a pool of pool_len items: indices = 0, 1, ..., k-1
Combinations(pool_len, k) ==
    [ indices |-> [ i \in 1..k |-> i - 1 ], first |-> TRUE, pool_len |-> pool_len ]

\* while indices[i] == i + pool.len() - indices.len() { if i > 0 { i -= 1 } else { return None } }
\* i is 0-based; -1 stands for the `return None`
RECURSIVE Pivot(_, _, _)
Pivot(indices, i, pool_len) ==
    IF indices[i + 1] = i + pool_len - Len(indices)
    THEN IF i > 0 THEN Pivot(indices, i - 1, pool_len) ELSE -1
    ELSE i

\* indices[i] += 1; for j in i+1..len { indices[j] = indices[j-1] + 1 }
\* a plausible slip: the tail is not reset after the pivot moves
Bump_slip(indices, i) ==
    [ j \in 1..Len(indices) |->
        IF j - 1 < i THEN indices[j]
        ELSE IF j - 1 = i THEN indices[j] + 1
        ELSE indices[j] ]

Bump(indices, i) ==
    [ j \in 1..Len(indices) |->
        IF j - 1 < i THEN indices[j] ELSE indices[i + 1] + 1 + (j - 1 - i) ]

\* Iterator::next: [some, item (the index tuple), it (the iterator afterwards)]
CombNext(c) ==
    LET k == Len(c.indices)
        none == [ some |-> FALSE, item |-> << >>, it |-> c ]
    IN  IF c.first
        THEN IF k > c.pool_len
             THEN none
             ELSE [ some |-> TRUE, item |-> c.indices,
                    it |-> [ c EXCEPT !.first = FALSE ] ]
        ELSE IF k = 0
        THEN none
        ELSE LET i == Pivot(c.indices, k - 1, c.pool_len)
             IN  IF i < 0
                 THEN none
                 ELSE LET ind == Bump(c.indices, i)
                      IN  [ some |-> TRUE, item |-> ind,
                            it |-> [ c EXCEPT !.indices = ind ] ]

\* indices.iter().map(|i| pool[*i].clone()).collect()
Select(pool, indices) == [ j \in 1..Len(indices) |-> pool[indices[j] + 1] ]

(***************************************************************************)
(* has_any_4_concyclic                                                     *)
(***************************************************************************)
\* the for loop over subset.iter().combinations(4); tested counts the
\* combinations handed to four_points_are_concyclic
RECURSIVE Scan4(_, _, _)
Scan4(subset, c, tested) ==
    LET r == CombNext(c)
    IN  IF ~r.some
        THEN [ result |-> FALSE, tested |-> tested ]
        ELSE LET comb4 == Select(subset, r.item)
             IN  IF four_points_are_concyclic(comb4[1], comb4[2], comb4[3], comb4[4])
                 THEN [ result |-> TRUE, tested |-> tested + 1 ]
                 ELSE Scan4(subset, r.it, tested + 1)

\* a plausible slip: the loop stops after the first combination
Scan4_once(subset, c, tested) ==
    LET r == CombNext(c)
    IN  IF ~r.some
        THEN [ result |-> FALSE, tested |-> tested ]
        ELSE LET comb4 == Select(subset, r.item)
             IN  [ result |-> four_points_are_concyclic(comb4[1], comb4[2], comb4[3], comb4[4]),
                   tested |-> tested + 1 ]

has_any_4_concyclic_run_slip(subset) == Scan4_once(subset, Combinations(Len(subset), 4), 0)

has_any_4_concyclic_run(subset) == Scan4(subset, Combinations(Len(subset), 4), 0)

\* a plausible slip: only the first combination decides
has_any_4_concyclic_slip(subset) == has_any_4_concyclic_run_slip(subset).result

has_any_4_concyclic(subset) == has_any_4_concyclic_run(subset).result

(***************************************************************************)
(* Values of the variables a specification does not use                    *)
(***************************************************************************)
NoQuad == << >>
NoVerdict == [ collinear |-> FALSE, concyclic |-> FALSE ]
NoHres == [ result |-> FALSE, tested |-> 0 ]
NoIt == Combinations(0, 0)

GeomIdle == quad = NoQuad /\ verdict = NoVerdict
SeqIdle == points = << >> /\ hres = NoHres
MainIdle == /\ hen = 0 /\ n_max = 0 /\ n = 0 /\ found_good_subset = FALSE
            /\ t = 0 /\ out = << >>

(***************************************************************************)
(* SpecGeom: the predicates applied to one quadruple of grid points        *)
(***************************************************************************)
GeomGrid == (0..GeomW) \X (0..2)

InitGeom ==
    /\ quad \in GeomGrid \X GeomGrid \X GeomGrid \X GeomGrid
    /\ verdict = NoVerdict
    /\ pc = "quad"
    /\ SeqIdle /\ MainIdle /\ yielded = << >> /\ it = NoIt

\* one call of each predicate on (p1, p2, p3, p4)
Judge ==
    /\ pc = "quad"
    /\ verdict' = [ collinear |-> four_points_are_collinear(quad[1], quad[2], quad[3], quad[4]),
                    concyclic |-> four_points_are_concyclic(quad[1], quad[2], quad[3], quad[4]) ]
    /\ pc' = "judged"
    /\ UNCHANGED << quad, points, hres, yielded, hen, n_max, n,
                    found_good_subset, t, it, out >>

\* the same call with two neighbouring arguments exchanged; the three
\* exchanges generate all 24 orderings
Swap(i) ==
    /\ pc = "judged"
    /\ quad' = [ quad EXCEPT ![i] = quad[i + 1], ![i + 1] = quad[i] ]
    /\ verdict' = [ collinear |-> four_points_are_collinear(quad'[1], quad'[2], quad'[3], quad'[4]),
                    concyclic |-> four_points_are_concyclic(quad'[1], quad'[2], quad'[3], quad'[4]) ]
    /\ UNCHANGED << pc, points, hres, yielded, hen, n_max, n,
                    found_good_subset, t, it, out >>

NextGeom == Judge \/ \E i \in 1..3 : Swap(i)

SpecGeom == InitGeom /\ [][NextGeom]_vars

\* the determinant of the matrix with rows [x^2+y^2, x, y, 1], expanded
\* along its column of ones with the rule of Sarrus for the minors:
\* independent of det4's expansion along the first row
Sarrus(a, b, c) ==
      a[1] * b[2] * c[3] + a[2] * b[3] * c[1] + a[3] * b[1] * c[2]
    - a[3] * b[2] * c[1] - a[1] * b[3] * c[2] - a[2] * b[1] * c[3]

ColumnDet(q) ==
    LET m == LiftedMatrix(q[1], q[2], q[3], q[4])
    IN  - Sarrus(m[2], m[3], m[4]) + Sarrus(m[1], m[3], m[4])
        - Sarrus(m[1], m[2], m[4]) + Sarrus(m[1], m[2], m[3])

\* every triple among the four points has area2 = 0
OnOneLine(q) ==
    \A i, j, k \in 1..4 : (i < j /\ j < k) => area2(q[i], q[j], q[k]) = 0

Concyc(q) == four_points_are_concyclic(q[1], q[2], q[3], q[4])

C6_PermutationInvariant ==
    [][ (pc = "judged" /\ pc' = "judged") => verdict'.concyclic = verdict.concyclic ]_vars

\* a concyclic quadruple with a repeated point whose first two points differ
C6_Witness ==
    /\ pc = "judged"
    /\ verdict.concyclic
    /\ quad[1] # quad[2] /\ quad[3] = quad[4]
    /\ ~OnOneLine(quad)

\* C9: with p1 # p2, four_points_are_collinear is true iff the four
\* points lie on one line, and replacing p4 by a point off the line p1 p2
\* makes it false; with p1 = p2 it is true whatever p3 and p4 are.
C9_CollinearContract ==
    pc = "judged" =>
        IF quad[1] # quad[2]
        THEN /\ verdict.collinear <=> OnOneLine(quad)
             /\ verdict.collinear =>
                  \A q \in GeomGrid :
                      area2(quad[1], quad[2], q) # 0 =>
                          ~four_points_are_collinear(quad[1], quad[2], quad[3], q)
        ELSE verdict.collinear

\* p1 = p2 and the four points are not on one line, yet the result is true
C9_Witness ==
    /\ pc = "judged"
    /\ quad[1] = quad[2]
    /\ ~OnOneLine(quad)
    /\ verdict.collinear

SeqGrid == { <<0, 0>>, <<0, 1>>, <<1, 0>>, <<1, 1>>, <<2, 1>>, <<3, 0>> }

InitSeq ==
    /\ points = << >>
    /\ hres = NoHres
    /\ pc = "seq"
    /\ GeomIdle /\ MainIdle /\ yielded = << >> /\ it = NoIt

\* the caller builds the slice, one point at a time, repeats allowed
Push(p) ==
    /\ pc = "seq"
    /\ Len(points) < SeqLen
    /\ points' = Append(points, p)
    /\ UNCHANGED << quad, verdict, hres, yielded, hen, n_max, n, pc,
                    found_good_subset, t, it, out >>

\* one call has_any_4_concyclic(&points)
Check ==
    /\ pc = "seq"
    /\ hres' = has_any_4_concyclic_run(points)
    /\ pc' = "checked"
    /\ UNCHANGED << quad, verdict, points, yielded, hen, n_max, n,
                    found_good_subset, t, it, out >>

NextSeq == Check \/ \E p \in SeqGrid : Push(p)

SpecSeq == InitSeq /\ [][NextSeq]_vars

\* four positions i < j < k < l whose points are concyclic
SomeQuadrupleConcyclic(s) ==
    \E i \in 1..Len(s) : \E j \in (i + 1)..Len(s) :
        \E k \in (j + 1)..Len(s) : \E l \in (k + 1)..Len(s) :
            four_points_are_concyclic(s[i], s[j], s[k], s[l])

\* C7: has_any_4_concyclic is true iff four positions i < j < k < l hold
\* concyclic points; it is false only after all C(|points|, 4) combinations
\* were tested, and it is false for every sequence of fewer than 4 points.
C7_HasAnyContract ==
    pc = "checked" =>
        /\ hres.result <=> SomeQuadrupleConcyclic(points)
        /\ ~hres.result => hres.tested = Binom(Len(points), 4)
        /\ Len(points) < 4 => ~hres.result

\* the only concyclic quadruple of five points is the last one tested
C7_Witness ==
    /\ pc = "checked"
    /\ Len(points) = 5
    /\ hres.result
    /\ hres.tested = 5

(***************************************************************************)
(* SpecEnum: `for subset in pool.iter().combinations(k)` with an empty     *)
(* body, pulled until the iterator returns None                            *)
(***************************************************************************)
InitEnum ==
    /\ \E pool_len \in 0..EnumN : \E k \in 0..EnumN : it = Combinations(pool_len, k)
    /\ yielded = << >>
    /\ pc = "pull"
    /\ GeomIdle /\ SeqIdle /\ MainIdle

\* next() returned Some(item)
Yield ==
    /\ pc = "pull"
    /\ CombNext(it).some
    /\ yielded' = Append(yielded, CombNext(it).item)
    /\ it' = CombNext(it).it
    /\ UNCHANGED << quad, verdict, points, hres, hen, n_max, n, pc,
                    found_good_subset, t, out >>

\* next() returned None: the for loop ends
Exhaust ==
    /\ pc = "pull"
    /\ ~CombNext(it).some
    /\ pc' = "exhausted"
    /\ UNCHANGED << quad, verdict, points, hres, yielded, hen, n_max, n,
                    found_good_subset, t, it, out >>

NextEnum == Yield \/ Exhaust

SpecEnum == InitEnum /\ [][NextEnum]_vars

StrictlyIncreasing(s) == \A i \in 1..(Len(s) - 1) : s[i] < s[i + 1]

\* a before b in lexicographic order, a and b of the same length
LexLess(a, b) ==
    \E i \in 1..Len(a) :
        /\ a[i] < b[i]
        /\ \A j \in 1..(i - 1) : a[j] = b[j]

\* C8: for k <= N the iterator yields exactly C(N, k) index tuples, no
\* two equal, each strictly increasing within 0..N-1, in strictly
\* increasing lexicographic order, the first (0, ..., k-1) and the last
\* (N-k, ..., N-1); for N = 5, k = 3 these are 10 tuples from (0,1,2) to
\* (2,3,4).
C8_EnumeratorContract ==
    LET N == it.pool_len
        k == Len(it.indices)
    IN  (pc \in {"pull", "exhausted"} /\ k <= N) =>
          /\ \A i \in 1..Len(yielded) :
                /\ Len(yielded[i]) = k
                /\ StrictlyIncreasing(yielded[i])
                /\ \A j \in 1..k : yielded[i][j] \in 0..(N - 1)
          /\ \A i, j \in 1..Len(yielded) : i < j => yielded[i] # yielded[j]
          /\ \A i \in 1..(Len(yielded) - 1) :
                k > 0 => LexLess(yielded[i], yielded[i + 1])
          /\ Len(yielded) >= 1 => yielded[1] = [ j \in 1..k |-> j - 1 ]
          /\ Len(yielded) <= Binom(N, k)
          /\ pc = "exhausted" =>
                /\ Len(yielded) = Binom(N, k)
                /\ Last(yielded) = [ j \in 1..k |-> N - k + j - 1 ]
          /\ (pc = "exhausted" /\ N = 5 /\ k = 3) =>
                /\ Len(yielded) = 10
                /\ yielded[1] = << 0, 1, 2 >>
                /\ yielded[10] = << 2, 3, 4 >>

C8_Witness ==
    /\ pc = "exhausted"
    /\ it.pool_len = 5
    /\ Len(yielded) = 10
    /\ yielded[4] = << 0, 2, 3 >>
    /\ yielded[10] = << 2, 3, 4 >>

(***************************************************************************)
(* Spec: main                                                              *)
(***************************************************************************)
all_points == GridPoints(hen)

\* one printed line; n carries the number the line shows
Line(kind, num, subset) == [ kind |-> kind, n |-> num, subset |-> subset ]

Init ==
    /\ hen \in 1..MaxHen
    /\ n_max \in N_MIN..MaxN
    /\ n = N_MIN
    /\ pc = "start"
    /\ found_good_subset = FALSE
    /\ t = 0
    /\ it = NoIt
    /\ out = << >>
    /\ GeomIdle /\ SeqIdle /\ yielded = << >>

\* the grid is built and its dimensions are printed
Start ==
    /\ pc = "start"
    /\ out' = Append(out, Line("size", hen + 1, << >>))
    /\ pc' = "loop"
    /\ UNCHANGED << quad, verdict, points, hres, yielded, hen, n_max, n,
                    found_good_subset, t, it >>

\* for n in N_MIN..=n_max: the body starts for the next n
LoopEnter ==
    /\ pc = "loop"
    /\ n <= n_max
    /\ found_good_subset' = FALSE
    /\ out' = Append(out, Line("len", Len(all_points), << >>))
    /\ t' = 0
    /\ it' = Combinations(Len(all_points), n)
    /\ pc' = "scan"
    /\ UNCHANGED << quad, verdict, points, hres, yielded, hen, n_max, n >>

\* the range is used up
LoopExit ==
    /\ pc = "loop"
    /\ n > n_max
    /\ pc' = "final"
    /\ UNCHANGED << quad, verdict, points, hres, yielded, hen, n_max, n,
                    found_good_subset, t, it, out >>

\* one pass through the body of `for subset in all_points.iter().combinations(n)`
Examine ==
    /\ pc = "scan"
    /\ CombNext(it).some
    /\ LET r == CombNext(it)
           subset == Select(all_points, r.item)
       IN  /\ it' = r.it
           /\ t' = t + 1
           /\ IF ~has_any_4_concyclic(subset)
              THEN /\ found_good_subset' = TRUE
                   /\ out' = Append(out, Line("found", n, subset))
                   /\ pc' = "after"                         \* break
              ELSE /\ out' = IF t' % INTERVAL = 0
                             THEN Append(out, Line("progress", t' \div INTERVAL, << >>))
                             ELSE out
                   /\ UNCHANGED << found_good_subset, pc >>
    /\ UNCHANGED << quad, verdict, points, hres, yielded, hen, n_max, n >>

\* the iterator returns None
ScanExhausted ==
    /\ pc = "scan"
    /\ ~CombNext(it).some
    /\ pc' = "after"
    /\ UNCHANGED << quad, verdict, points, hres, yielded, hen, n_max, n,
                    found_good_subset, t, it, out >>

\* a plausible slip: the break after the failure line is missing
AfterScan_slip ==
    /\ pc = "after"
    /\ out' = IF ~found_good_subset THEN Append(out, Line("notfound", n, << >>)) ELSE out
    /\ n' = n + 1
    /\ pc' = "loop"
    /\ UNCHANGED << quad, verdict, points, hres, yielded, hen, n_max,
                    found_good_subset, t, it >>

\* if !found_good_subset { println; break }, else on to the next n
AfterScan ==
    /\ pc = "after"
    /\ IF ~found_good_subset
       THEN /\ out' = Append(out, Line("notfound", n, << >>))
            /\ pc' = "final"                                \* break
            /\ UNCHANGED n
       ELSE /\ n' = n + 1
            /\ pc' = "loop"
            /\ UNCHANGED out
    /\ UNCHANGED << quad, verdict, points, hres, yielded, hen, n_max,
                    found_good_subset, t, it >>

\* the println after the loop, reached from the break and from the end of the range
Final ==
    /\ pc = "final"
    /\ out' = Append(out, Line("final", 0, << >>))
    /\ pc' = "done"
    /\ UNCHANGED << quad, verdict, points, hres, yielded, hen, n_max, n,
                    found_good_subset, t, it >>

Next ==
    \/ Start
    \/ LoopEnter
    \/ LoopExit
    \/ Examine
    \/ ScanExhausted
    \/ AfterScan
    \/ Final

Spec == Init /\ [][Next]_vars

(***************************************************************************)
(* Properties of main                                                      *)
(***************************************************************************)
Kinds(o) == { o[i].kind : i \in DOMAIN o }

\* the Found / NotFound lines of an output, in order
RECURSIVE Outcomes(_)
Outcomes(o) ==
    IF o = << >> THEN << >>
    ELSE LET rest == Outcomes(SubSeq(o, 1, Len(o) - 1))
         IN  IF Last(o).kind \in {"found", "notfound"}
             THEN Append(rest, Last(o))
             ELSE rest

\* the lines a step adds to the output
Emitted == SubSeq(out', Len(out) + 1, Len(out'))

\* C1: the scan for n starts at N_MIN and is entered for n+1 only
\* immediately after the Found line for n, with n+1 <= n_max; n only ever
\* grows by one; once a NotFound line is printed nothing is enumerated or
\* checked any more and no Found or NotFound line follows.
C1_AscendingThenHalted ==
    [][ /\ n' # n => n' = n + 1
        /\ (pc # "scan" /\ pc' = "scan") =>
              /\ n' \in N_MIN..n_max
              /\ IF n' = N_MIN
                 THEN Outcomes(out) = << >>
                 ELSE Last(out) = Line("found", n' - 1, Last(out).subset)
        /\ "notfound" \in Kinds(out) =>
              /\ it' = it /\ t' = t /\ n' = n
              /\ found_good_subset' = found_good_subset
              /\ pc' \in {"final", "done"}
              /\ Outcomes(out') = Outcomes(out)
      ]_vars

\* a run that went through Found lines for n, n + 1, then NotFound, and stopped
C1_Witness ==
    /\ pc = "done"
    /\ Len(Outcomes(out)) >= 3
    /\ Last(Outcomes(out)).kind = "notfound"
    /\ Outcomes(out)[1].kind = "found"

\* all strictly increasing index tuples of length k over 0..m-1
RECURSIVE TuplesFrom(_, _, _)
TuplesFrom(lo, m, k) ==
    IF k = 0 THEN { << >> }
    ELSE UNION { { << i >> \o rest : rest \in TuplesFrom(i + 1, m, k - 1) } :
                 i \in lo..(m - k) }

IncTuples(m, k) == TuplesFrom(0, m, k)

Qualifies(s) == ~SomeQuadrupleConcyclic(Select(all_points, s))

\* the tuples before s in lexicographic order
Before(s) == { u \in IncTuples(Len(all_points), Len(s)) : LexLess(u, s) }

\* C2: when the scan for n ends with Found, the subset printed is the
\* lexicographically smallest n-subset without a concyclic quadruple (it
\* has none, every earlier subset has one and was examined); when it ends
\* without, all C(N, n) subsets were examined and each has one.  The
\* outcome line printed next says the same.
C2_OutcomeMatchesReference ==
    /\ pc = "after" =>
         IF found_good_subset
         THEN /\ Last(out).kind = "found" /\ Last(out).n = n
              /\ Last(out).subset = Select(all_points, it.indices)
              /\ Qualifies(it.indices)
              /\ \A u \in Before(it.indices) : ~Qualifies(u)
              /\ t = Cardinality(Before(it.indices)) + 1
         ELSE /\ t = Binom(Len(all_points), n)
              /\ \A u \in IncTuples(Len(all_points), n) : ~Qualifies(u)
    /\ (out # << >> /\ Last(out).kind = "notfound") =>
         /\ ~found_good_subset /\ Last(out).n = n
         /\ t = Binom(Len(all_points), n)

\* Found(5) on the 3 x 3 grid after three subsets with a concyclic quadruple
C2_Witness ==
    /\ pc = "after"
    /\ found_good_subset
    /\ hen = 2 /\ n = 5 /\ t = 4

\* C3: a run with a NotFound line ends with that line, and the final line
\* is printed only in a run without a NotFound line.
C3_NotFoundEndsOutput ==
    /\ (pc = "done" /\ "notfound" \in Kinds(out)) => Last(out).kind = "notfound"
    /\ "final" \in Kinds(out) => "notfound" \notin Kinds(out)

\* C4: t starts at zero in the scan for each n, and a step that brings t
\* to k * INTERVAL prints the progress line for k, also when that
\* combination is the qualifying one; no progress line is printed otherwise.
C4_ProgressAtEveryMultiple ==
    [][ /\ (pc = "loop" /\ pc' = "scan") => t' = 0
        /\ (t' = t + 1 /\ t' % INTERVAL = 0) =>
              Line("progress", t' \div INTERVAL, << >>) \in Range(Emitted)
        /\ \A i \in DOMAIN Emitted :
              Emitted[i].kind = "progress" =>
                  /\ t' = t + 1 /\ t' % INTERVAL = 0
                  /\ Emitted[i].n = t' \div INTERVAL
      ]_vars

====
